---- MODULE Spec2Model ----
(***************************************************************************)
(* The build-time compression cache of astro-compress:                     *)
(* CompressionCacheManagerImpl (src/src/CompressionCache.ts).              *)
(*                                                                         *)
(* The state is the manager's in-memory manifest together with the part of *)
(* the file system it reads and writes: the source files, the artifact     *)
(* files of the cache directory and manifest.json.  fs.unlink is started   *)
(* with a callback and never awaited, so an unlink that has been requested *)
(* is carried out by the thread pool at some later, unconstrained moment.  *)
(***************************************************************************)
EXTENDS Integers, Sequences, FiniteSets, TLC

(***************************************************************************)
(* Bounds of the model.                                                    *)
(***************************************************************************)
\* Date.now() returns a time in 0..MaxTime.
MaxTime == 1
\* At most MaxPending unlink requests for one file are in flight at a time.
MaxPending == 1

(***************************************************************************)
(* Input domains.                                                          *)
(***************************************************************************)
\* Paths are sequences of characters; "." and "/" are the separators that
\* String.split('.') and path.join look at.
PathCss == <<"/", "a", ".", "css">>
\* a path whose last component holds no '.'
PathNoDot == <<"/", "n">>
Paths == {PathCss}
\* a second source with the same extension, and the two together
PathCss2 == <<"/", "b", ".", "css">>
TwoPaths == {PathCss, PathCss2}
\* a source with an extension and one without
DotAndNoDot == {PathCss, PathNoDot}

\* Source file contents (byte sequences).
SrcB1 == <<1>>
SrcB2 == <<2, 2>>
Contents == {SrcB1, SrcB2}

\* Compressed contents handed to saveToCache (byte sequences).
ZipA == <<7>>
ZipB == <<8, 8>>
Compressed == {ZipA, ZipB}

\* Settings objects: the sequence of (key, value) pairs in insertion order.
SettingsCss1 == << <<"format", "css">>, <<"level", "1">> >>
SettingsCss2 == << <<"format", "css">>, <<"level", "2">> >>
SettingsSet == {SettingsCss1, SettingsCss2}
\* the object of SettingsCss1 with its keys inserted in the other order
SettingsCss1Rev == << <<"level", "1">>, <<"format", "css">> >>
SettingsAnyOrder == {SettingsCss1, SettingsCss1Rev, SettingsCss2}

(***************************************************************************)
(* Pure functions of the code.                                             *)
(***************************************************************************)
\* createHash('sha256').update(content).digest('hex'): a digest that is a
\* function of the bytes alone and, at this scale, injective.
sha256(content) == <<"sha256">> \o content

\* originalPath.split('.').pop() || '' : the characters after the last '.',
\* the whole path when it holds no '.'.
RECURSIVE LastDot(_, _)
LastDot(path, i) ==
  IF i = 0 THEN 0 ELSE IF path[i] = "." THEN i ELSE LastDot(path, i - 1)

Ext(path) == SubSeq(path, LastDot(path, Len(path)) + 1, Len(path))

\* `${sourceOriginalHash}.${ext}`
CachedFileName(hash, ext) == [stem |-> hash, ext |-> ext]

\* path.join(this.cacheDir, cachedFileName)
CachedFilePath(name) == [dir |-> "cacheDir", file |-> name]

\* writeFileSync creates no directory: the file must lie directly inside the
\* cache directory, which is so iff the file name holds no '/' (a digest
\* holds none, an extension taken from a path without '.' may).
InCacheDir(fp) == \A i \in 1..Len(fp.file.ext) : fp.file.ext[i] # "/"

\* JSON.stringify of a settings object: the text, token by token, keys in
\* insertion order.
RECURSIVE StringifyPairs(_)
StringifyPairs(pairs) ==
  IF pairs = <<>> THEN <<>>
  ELSE <<pairs[1][1], ":", pairs[1][2]>>
       \o (IF Len(pairs) > 1 THEN <<",">> ELSE <<>>)
       \o StringifyPairs(Tail(pairs))

JSONStringify(settings) == <<"{">> \o StringifyPairs(settings) \o <<"}">>

\* JSON.parse of such a text.
RECURSIVE ParsePairs(_)
ParsePairs(toks) ==
  IF Len(toks) < 3 THEN <<>>
  ELSE << <<toks[1], toks[3]>> >>
       \o ParsePairs(SubSeq(toks, IF Len(toks) > 3 THEN 5 ELSE 4, Len(toks)))

JSONParse(text) == ParsePairs(SubSeq(text, 2, Len(text) - 1))

\* The entry saveToCache builds (lines 117-126).
CacheEntry(hash, fp, time, settings, original, compressed) ==
  [sourceHash |-> hash, compressedPath |-> fp, timestamp |-> time,
   settings |-> settings,
   size |-> [original |-> Len(original), compressed |-> Len(compressed)]]

\* Record<string, CacheEntry> with no key.
NoEntries == [p \in {} |-> 0]

\* The manifest of the constructor: { version: '1', entries: {} }.
\* shape tells whether the object has the properties of a manifest.
EmptyManifest == [shape |-> "manifest", version |-> "1", entries |-> NoEntries]

\* What JSON.parse gives for the text "{}": an object without entries.
EmptyObject == [shape |-> "object", version |-> "", entries |-> NoEntries]

\* File contents of manifest.json.
NoFile == [text |-> "ENOENT"]
Garbage == [text |-> "not json"]
EmptyObjectText == [text |-> "{}"]

\* JSON.stringify(this.manifest, null, 2)
StringifyManifest(m) ==
  IF m.shape = "object" THEN EmptyObjectText
  ELSE [text |-> "manifest", version |-> m.version,
        entries |-> [p \in DOMAIN m.entries |->
                       [m.entries[p] EXCEPT !.settings = JSONStringify(@)]]]

\* JSON.parse(content) of a text that parses.
ParseManifest(f) ==
  IF f.text = "{}" THEN EmptyObject
  ELSE [shape |-> "manifest", version |-> f.version,
        entries |-> [p \in DOMAIN f.entries |->
                       [f.entries[p] EXCEPT !.settings = JSONParse(@)]]]

\* readFileSync + JSON.parse succeed on the file.
Parsable(f) == f.text \in {"{}", "manifest"}

\* delete entries[p]
DeleteKey(entries, p) == [q \in DOMAIN entries \ {p} |-> entries[q]]

\* entries[p] = e
PutKey(entries, p, e) ==
  [q \in DOMAIN entries \cup {p} |-> IF q = p THEN e ELSE entries[q]]

\* The artifact files the inputs can name.
ArtifactPaths ==
  {fp \in {CachedFilePath(CachedFileName(sha256(c), Ext(p))) :
             c \in Contents, p \in Paths} : InCacheDir(fp)}

(***************************************************************************)
(* State.                                                                  *)
(***************************************************************************)
VARIABLES
  src,            \* the source files: path -> bytes, for the paths that exist
  files,          \* the artifact files of the cache directory: path -> bytes
  manifestFile,   \* the content of cacheDir/manifest.json
  manifest,       \* this.manifest of the manager instance
  pendingUnlink,  \* unlink requests started and not yet carried out, per file
  now,            \* the last time Date.now() returned
  call,           \* the call of the manager that is suspended at an await
  ret,            \* what the last completed call gave its caller
  hist,           \* the call completed before that one
  ready,          \* the instance's manifest has been loaded or created
  parked          \* what is set aside: the manager instance that is not the
                  \* one being called, and the suspended call that is not
                  \* the one the event loop resumes next

vars == <<src, files, manifestFile, manifest, pendingUnlink, now, call, ret,
          hist, ready, parked>>

Idle == [op |-> "idle"]

\* What a caller observes of a completed call: value is <<>> for null,
\* undefined or a rejection, <<e>> for the entry e; why names the branch
\* taken; stale is the artifact path handed to unlink, bytes the content of
\* the returned entry's artifact when the call returned; fresh (of hist)
\* tells that the call hist tells of was the first of its instance; clean tells that no
\* file changed out of band while the call was suspended.  ret and hist tell
\* of the calls made since the last out-of-band change of a file: such a
\* change starts the record anew.  seq alternates from one completed call to
\* the next.
Result(op, path, settings, value, why, stale, bytes) ==
  [op |-> op, path |-> path, settings |-> settings, value |-> value,
   why |-> why, stale |-> stale, bytes |-> bytes, seq |-> 1 - ret.seq,
   clean |-> IF call.op = "idle" THEN TRUE ELSE ~call.oob]

Summary(r) ==
  [op |-> r.op, path |-> r.path, settings |-> r.settings, why |-> r.why,
   fresh |-> hist.op = "constructor"]

NoCall ==
  [op |-> "none", path |-> <<>>, settings |-> <<>>, value |-> <<>>,
   why |-> "", stale |-> <<>>, bytes |-> <<>>, seq |-> 0, clean |-> TRUE]

NoHistory ==
  [op |-> "none", path |-> <<>>, settings |-> <<>>, why |-> "", fresh |-> FALSE]

\* The promise of a call settles: the caller sees r.
Complete(r) ==
  /\ ret' = r
  /\ hist' = Summary(ret)
  /\ call' = Idle

\* A file changes out of band: the record of calls starts anew.
OutOfBand ==
  /\ ret' = [NoCall EXCEPT !.seq = ret.seq]
  /\ hist' = NoHistory
  /\ call' = IF call.op = "idle" THEN call ELSE [call EXCEPT !.oob = TRUE]
  /\ parked' = IF parked.call.op = "idle" THEN parked
               ELSE [parked EXCEPT !.call.oob = TRUE]

\* The cache directory and the manager before the first call.
Started ==
  /\ files = [fp \in {} |-> <<>>]
  /\ manifestFile = NoFile
  /\ manifest = EmptyManifest
  /\ pendingUnlink = [fp \in ArtifactPaths |-> 0]
  /\ now = 0
  /\ call = Idle
  /\ ret = NoCall
  /\ hist = NoHistory
  /\ ready = FALSE
  /\ parked = [manifest |-> EmptyManifest, ready |-> FALSE, call |-> Idle]

Init ==
  /\ src \in [Paths -> Contents]
  /\ Started

(***************************************************************************)
(* The manager's operations.                                               *)
(***************************************************************************)
\* new CompressionCacheManagerImpl(cacheDir): a fresh instance on the same
\* cache directory takes the place of the one before.
Constructor ==
  /\ call = Idle
  /\ manifest' = EmptyManifest
  /\ ready' = FALSE
  /\ Complete(Result("constructor", <<>>, <<>>, <<>>, "ok", <<>>, <<>>))
  /\ UNCHANGED <<src, files, manifestFile, pendingUnlink, now, parked>>

\* A second instance on the same cache directory: this.manifest is a field
\* of each instance, the files are shared.  The caller turns to the other
\* instance, which becomes the one called.
SwitchInstance ==
  /\ call = Idle
  /\ parked.call = Idle
  /\ manifest' = parked.manifest
  /\ ready' = parked.ready
  /\ parked' = [parked EXCEPT !.manifest = manifest, !.ready = ready]
  /\ Complete(Result("switch", <<>>, <<>>, <<>>, "ok", <<>>, <<>>))
  /\ UNCHANGED <<src, files, manifestFile, pendingUnlink, now>>

\* loadManifest(): readFileSync and JSON.parse throw on a missing or
\* unparsable file; whatever parses becomes this.manifest.
LoadManifest ==
  /\ call = Idle
  /\ IF Parsable(manifestFile)
     THEN /\ manifest' = ParseManifest(manifestFile)
          /\ ready' = TRUE
          /\ Complete(Result("loadManifest", <<>>, <<>>, <<>>, "ok", <<>>, <<>>))
     ELSE /\ manifest' = manifest
          /\ ready' = ready
          /\ Complete(Result("loadManifest", <<>>, <<>>, <<>>, "error", <<>>, <<>>))
  /\ UNCHANGED <<src, files, manifestFile, pendingUnlink, now, parked>>

\* Mutant: saveManifest keeps the entries the file holds for the paths that
\* this.manifest has no entry for.
SaveManifestMerged(m) ==
  IF Parsable(manifestFile) /\ manifestFile.text = "manifest"
        /\ m.shape = "manifest"
  THEN StringifyManifest(
         [m EXCEPT !.entries =
            [q \in DOMAIN m.entries \cup DOMAIN ParseManifest(manifestFile).entries |->
               IF q \in DOMAIN m.entries THEN m.entries[q]
               ELSE ParseManifest(manifestFile).entries[q]]])
  ELSE StringifyManifest(m)

\* Mutant: saveManifest writes nothing.
SaveManifestSkipped(m) == manifestFile

\* saveManifest(): the file content after writing manifest m.
SaveManifest(m) == StringifyManifest(m)

\* A rejected promise: the call raised an error to its caller.
Rejected(r) == r.why \in {"unreadable", "typeerror", "enoent", "error"}

\* Mutant: initialize writes this.manifest to the file before loading it.
InitializeBodyWriteBack ==
  /\ ready' = TRUE
  /\ manifest' = manifest
  /\ manifestFile' = StringifyManifest(manifest)
  /\ Complete(Result("initialize", <<>>, <<>>, <<>>, "loaded", <<>>, <<>>))
  /\ UNCHANGED <<src, files, pendingUnlink, now, parked>>

\* The body of initialize(): mkdirSync, then loadManifest; when that throws,
\* the catch writes this.manifest, as it is, to the file.
InitializeBody ==
  /\ ready' = TRUE
  /\ IF Parsable(manifestFile)
     THEN /\ manifest' = ParseManifest(manifestFile)
          /\ manifestFile' = manifestFile
          /\ Complete(Result("initialize", <<>>, <<>>, <<>>, "loaded", <<>>, <<>>))
     ELSE /\ manifest' = manifest
          /\ manifestFile' = SaveManifest(manifest)
          /\ Complete(Result("initialize", <<>>, <<>>, <<>>, "created", <<>>, <<>>))
  /\ UNCHANGED <<src, files, pendingUnlink, now, parked>>

Initialize ==
  /\ call = Idle
  /\ InitializeBody

\* Mutant: the invalidation empties the manifest.
InvalidatedAll(p) ==
  /\ pendingUnlink' =
       [pendingUnlink EXCEPT ![manifest.entries[p].compressedPath] = @ + 1]
  /\ manifest' = [manifest EXCEPT !.entries = NoEntries]
  /\ manifestFile' = StringifyManifest(manifest')

\* The synchronous body of invalidateCache(p) when entries[p] exists: the
\* unlink is only started, the entry is deleted and the manifest written.
Invalidated(p) ==
  /\ pendingUnlink' =
       [pendingUnlink EXCEPT ![manifest.entries[p].compressedPath] = @ + 1]
  /\ manifest' = [manifest EXCEPT !.entries = DeleteKey(@, p)]
  /\ manifestFile' = SaveManifest(manifest')

\* The unlink of invalidateCache(p) can be started.
CanUnlink(p) ==
  /\ manifest.entries[p].compressedPath \in ArtifactPaths
  /\ pendingUnlink[manifest.entries[p].compressedPath] < MaxPending

\* invalidateCache(p) called by the user of the manager.
InvalidateCache(p) ==
  /\ call = Idle
  /\ ready
  /\ IF manifest.shape = "manifest" /\ p \in DOMAIN manifest.entries
     THEN /\ CanUnlink(p)
          /\ Invalidated(p)
          /\ Complete(Result("invalidateCache", p, <<>>, <<>>, "ok",
                             <<manifest.entries[p].compressedPath>>, <<>>))
     ELSE \* entries is undefined, or entries[p] is: a TypeError
          /\ Complete(Result("invalidateCache", p, <<>>, <<>>, "typeerror",
                             <<>>, <<>>))
          /\ UNCHANGED <<manifest, manifestFile, pendingUnlink>>
  /\ UNCHANGED <<src, files, now, ready, parked>>

\* Mutant: the comparison of the hashes is left out.
HashMatchesAlways(entry, content) == TRUE

\* entry.sourceHash !== sourceOriginalHash is false.
HashMatches(entry, content) == entry.sourceHash = sha256(content)

\* JSON.stringify(entry.settings) !== JSON.stringify(settings) is false.
SettingsMatch(entry, s) == JSONStringify(entry.settings) = JSONStringify(s)

\* Mutant: the result of stat is ignored.
StatAlwaysOk(fp) == TRUE

\* await stat(fp) does not throw.
StatOk(fp) == fp \in DOMAIN files

\* The content of the file at fp, as a caller reads it: <<>> when missing.
BytesAt(fp) == IF fp \in DOMAIN files THEN <<files[fp]>> ELSE <<>>

\* The body of getCachedFile(p, s) up to its await (lines 69-92).
GetCachedFileSync(p, s) ==
  /\ UNCHANGED <<src, files, now, ready, parked>>
  /\ IF p \notin DOMAIN src
     THEN \* readFileSync throws
          /\ Complete(Result("getCachedFile", p, s, <<>>, "unreadable", <<>>, <<>>))
          /\ UNCHANGED <<manifest, manifestFile, pendingUnlink>>
     ELSE IF manifest.shape # "manifest"
     THEN \* this.manifest.entries is undefined
          /\ Complete(Result("getCachedFile", p, s, <<>>, "typeerror", <<>>, <<>>))
          /\ UNCHANGED <<manifest, manifestFile, pendingUnlink>>
     ELSE IF p \notin DOMAIN manifest.entries
     THEN /\ Complete(Result("getCachedFile", p, s, <<>>, "noentry", <<>>, <<>>))
          /\ UNCHANGED <<manifest, manifestFile, pendingUnlink>>
     ELSE IF ~HashMatches(manifest.entries[p], src[p])
     THEN /\ CanUnlink(p)
          /\ Invalidated(p)
          /\ Complete(Result("getCachedFile", p, s, <<>>, "hash",
                             <<manifest.entries[p].compressedPath>>, <<>>))
     ELSE IF ~SettingsMatch(manifest.entries[p], s)
     THEN /\ CanUnlink(p)
          /\ Invalidated(p)
          /\ Complete(Result("getCachedFile", p, s, <<>>, "settings",
                             <<manifest.entries[p].compressedPath>>, <<>>))
     ELSE \* await stat(entry.compressedPath)
          /\ call' = [op |-> "getCachedFile", path |-> p, settings |-> s,
                      entry |-> manifest.entries[p], oob |-> FALSE]
          /\ UNCHANGED <<manifest, manifestFile, pendingUnlink, ret, hist>>

\* Mutant: the entry is looked up before the source is read, so that an
\* unreadable source without an entry is a miss.
GetCachedFileStartLookupFirst(p, s) ==
  /\ call = Idle
  /\ ready
  /\ IF p \notin DOMAIN src /\ manifest.shape = "manifest"
        /\ p \notin DOMAIN manifest.entries
     THEN /\ Complete(Result("getCachedFile", p, s, <<>>, "noentry", <<>>, <<>>))
          /\ UNCHANGED <<src, files, now, ready, manifest, manifestFile,
                         pendingUnlink, parked>>
     ELSE GetCachedFileSync(p, s)

\* A caller that has initialized the manager and awaits each call before
\* the next calls getCachedFile(p, s).
GetCachedFileStart(p, s) ==
  /\ call = Idle
  /\ ready
  /\ GetCachedFileSync(p, s)

\* Mutant: a hit refreshes the timestamp of the entry and saves the manifest.
GetCachedFileStatTouch ==
  /\ call.op = "getCachedFile"
  /\ UNCHANGED <<src, files, pendingUnlink, ready, parked>>
  /\ IF call.entry.compressedPath \in DOMAIN files
     THEN \E t \in now..MaxTime :
          /\ now' = t
          /\ manifest' = [manifest EXCEPT !.entries =
                            PutKey(@, call.path, [call.entry EXCEPT !.timestamp = t])]
          /\ manifestFile' = StringifyManifest(manifest')
          /\ Complete(Result("getCachedFile", call.path, call.settings,
                             <<manifest'.entries[call.path]>>, "hit", <<>>,
                             BytesAt(call.entry.compressedPath)))
     ELSE /\ now' = now
          /\ manifest' = [manifest EXCEPT !.entries = DeleteKey(@, call.path)]
          /\ manifestFile' = StringifyManifest(manifest')
          /\ Complete(Result("getCachedFile", call.path, call.settings,
                             <<>>, "missing", <<>>, <<>>))

\* Mutant: the catch deletes the entry and does not write the manifest.
GetCachedFileStatUnsaved ==
  /\ call.op = "getCachedFile"
  /\ UNCHANGED <<src, files, now, pendingUnlink, ready, parked, manifestFile>>
  /\ IF call.entry.compressedPath \in DOMAIN files
     THEN /\ Complete(Result("getCachedFile", call.path, call.settings,
                             <<call.entry>>, "hit", <<>>,
                             BytesAt(call.entry.compressedPath)))
          /\ UNCHANGED manifest
     ELSE /\ manifest' = [manifest EXCEPT !.entries = DeleteKey(@, call.path)]
          /\ Complete(Result("getCachedFile", call.path, call.settings,
                             <<>>, "missing", <<>>, <<>>))

\* Mutant: the catch starts the manifest anew, without any entry.
GetCachedFileStatReset ==
  /\ call.op = "getCachedFile"
  /\ UNCHANGED <<src, files, now, pendingUnlink, ready, parked>>
  /\ IF call.entry.compressedPath \in DOMAIN files
     THEN /\ Complete(Result("getCachedFile", call.path, call.settings,
                             <<call.entry>>, "hit", <<>>,
                             BytesAt(call.entry.compressedPath)))
          /\ UNCHANGED <<manifest, manifestFile>>
     ELSE /\ manifest' = EmptyManifest
          /\ manifestFile' = StringifyManifest(manifest')
          /\ Complete(Result("getCachedFile", call.path, call.settings,
                             <<>>, "missing", <<>>, <<>>))

\* getCachedFile after its await (lines 92-100): stat has succeeded or thrown.
GetCachedFileStat ==
  /\ call.op = "getCachedFile"
  /\ UNCHANGED <<src, files, now, pendingUnlink, ready, parked>>
  /\ IF StatOk(call.entry.compressedPath)
     THEN /\ Complete(Result("getCachedFile", call.path, call.settings,
                             <<call.entry>>, "hit", <<>>,
                             BytesAt(call.entry.compressedPath)))
          /\ UNCHANGED <<manifest, manifestFile>>
     ELSE /\ manifest' = [manifest EXCEPT !.entries = DeleteKey(@, call.path)]
          /\ manifestFile' = SaveManifest(manifest')
          /\ Complete(Result("getCachedFile", call.path, call.settings,
                             <<>>, "missing", <<>>, <<>>))

\* The event loop: a call suspended at its await is set aside, so that the
\* caller, who did not await it, starts another call; or the call that was
\* set aside is taken up again.
Yield ==
  /\ call # Idle \/ parked.call # Idle
  /\ call' = parked.call
  /\ parked' = [parked EXCEPT !.call = call]
  /\ UNCHANGED <<src, files, manifestFile, manifest, pendingUnlink, now, ret,
                 hist, ready>>

\* No call on path p is set aside.
NotInFlight(p) == IF parked.call = Idle THEN TRUE ELSE parked.call.path # p

\* getCachedFile(p, s) and saveToCache(p, b, s) started while a call of
\* another path may be suspended.
GetCachedFileBeside(p, s) ==
  /\ NotInFlight(p)
  /\ GetCachedFileStart(p, s)

\* saveToCache(p, b, s) (lines 103-131); nothing follows its await but a log.
\* t is what Date.now() returns: the clock never runs backwards.
SaveToCache(p, b, s, t) ==
  /\ call = Idle
  /\ ready
  /\ t >= now
  /\ UNCHANGED <<src, pendingUnlink, ready, parked>>
  /\ LET hash == sha256(src[p])
         fp == CachedFilePath(CachedFileName(hash, Ext(p)))
         entry == CacheEntry(hash, fp, t, s, src[p], b)
     IN IF p \notin DOMAIN src
        THEN \* readFileSync throws
             /\ Complete(Result("saveToCache", p, s, <<>>, "unreadable", <<>>, <<>>))
             /\ UNCHANGED <<files, manifest, manifestFile, now>>
        ELSE IF ~InCacheDir(fp)
        THEN \* writeFileSync throws ENOENT: no such directory
             /\ Complete(Result("saveToCache", p, s, <<>>, "enoent", <<>>, <<>>))
             /\ UNCHANGED <<files, manifest, manifestFile, now>>
        ELSE IF manifest.shape # "manifest"
        THEN \* the artifact is written, then entries[p] = entry throws
             /\ files' = PutKey(files, fp, b)
             /\ now' = t
             /\ Complete(Result("saveToCache", p, s, <<>>, "typeerror", <<>>, <<>>))
             /\ UNCHANGED <<manifest, manifestFile>>
        ELSE /\ files' = PutKey(files, fp, b)
             /\ now' = t
             /\ manifest' = [manifest EXCEPT !.entries = PutKey(@, p, entry)]
             /\ manifestFile' = SaveManifest(manifest')
             /\ Complete(Result("saveToCache", p, s, <<entry>>, "ok", <<>>, <<b>>))

\* saveToCache(p, b, s) statement by statement, for what the files hold
\* between its writes.  First lines 104-114: the source is read and the
\* artifact written.
SaveToCacheWrite(p, b, s) ==
  /\ call = Idle
  /\ ready
  /\ UNCHANGED <<src, manifest, manifestFile, pendingUnlink, now, ready, parked>>
  /\ LET fp == CachedFilePath(CachedFileName(sha256(src[p]), Ext(p)))
     IN IF p \notin DOMAIN src
        THEN /\ Complete(Result("saveToCache", p, s, <<>>, "unreadable", <<>>, <<>>))
             /\ UNCHANGED files
        ELSE IF ~InCacheDir(fp)
        THEN /\ Complete(Result("saveToCache", p, s, <<>>, "enoent", <<>>, <<>>))
             /\ UNCHANGED files
        ELSE /\ files' = PutKey(files, fp, b)
             /\ call' = [op |-> "saveToCache", path |-> p, settings |-> s,
                         bytes |-> b, original |-> src[p], oob |-> FALSE]
             /\ UNCHANGED <<ret, hist>>

\* Then lines 116-130: the entry is built, put into the manifest and the
\* manifest written.  t is what Date.now() returns.
SaveToCachePersist(t) ==
  /\ call.op = "saveToCache"
  /\ t >= now
  /\ UNCHANGED <<src, files, pendingUnlink, ready, parked>>
  /\ now' = t
  /\ LET hash == sha256(call.original)
         fp == CachedFilePath(CachedFileName(hash, Ext(call.path)))
         entry == CacheEntry(hash, fp, t, call.settings, call.original,
                             call.bytes)
     IN IF manifest.shape # "manifest"
        THEN /\ Complete(Result("saveToCache", call.path, call.settings, <<>>,
                                "typeerror", <<>>, <<>>))
             /\ UNCHANGED <<manifest, manifestFile>>
        ELSE /\ manifest' = [manifest EXCEPT !.entries = PutKey(@, call.path, entry)]
             /\ manifestFile' = SaveManifest(manifest')
             /\ Complete(Result("saveToCache", call.path, call.settings,
                                <<entry>>, "ok", <<>>, <<call.bytes>>))

SaveToCacheBeside(p, b, s, t) ==
  /\ NotInFlight(p)
  /\ SaveToCache(p, b, s, t)

(***************************************************************************)
(* The file system and the clock, outside the manager's calls.             *)
(***************************************************************************)
\* The thread pool carries out a started unlink: the file is removed.
UnlinkDone(fp) ==
  /\ pendingUnlink[fp] > 0
  /\ pendingUnlink' = [pendingUnlink EXCEPT ![fp] = @ - 1]
  /\ files' = DeleteKey(files, fp)
  /\ UNCHANGED <<src, manifestFile, manifest, now, call, ret, hist, ready,
                 parked>>

\* A started unlink fails (EPERM, EBUSY): the callback logs the error.
UnlinkFail(fp) ==
  /\ pendingUnlink[fp] > 0
  /\ fp \in DOMAIN files
  /\ pendingUnlink' = [pendingUnlink EXCEPT ![fp] = @ - 1]
  /\ UNCHANGED <<src, files, manifestFile, manifest, now, call, ret, hist,
                 ready, parked>>

\* Out-of-band changes.
SourceWrite(p, c) ==
  /\ IF p \in DOMAIN src THEN src[p] # c ELSE TRUE
  /\ src' = PutKey(src, p, c)
  /\ OutOfBand
  /\ UNCHANGED <<files, manifestFile, manifest, pendingUnlink, now, ready>>

SourceDelete(p) ==
  /\ p \in DOMAIN src
  /\ src' = DeleteKey(src, p)
  /\ OutOfBand
  /\ UNCHANGED <<files, manifestFile, manifest, pendingUnlink, now, ready>>

ArtifactDelete(fp) ==
  /\ fp \in DOMAIN files
  /\ files' = DeleteKey(files, fp)
  /\ OutOfBand
  /\ UNCHANGED <<src, manifestFile, manifest, pendingUnlink, now, ready>>

ManifestFileSet(content) ==
  /\ manifestFile # content
  /\ manifestFile' = content
  /\ OutOfBand
  /\ UNCHANGED <<src, files, manifest, pendingUnlink, now, ready>>

Next ==
  \/ Constructor
  \/ LoadManifest
  \/ Initialize
  \/ \E p \in Paths : InvalidateCache(p)
  \/ \E p \in Paths, s \in SettingsSet : GetCachedFileStart(p, s)
  \/ GetCachedFileStat
  \/ \E p \in Paths, b \in Compressed, s \in SettingsSet, t \in 0..MaxTime :
        SaveToCache(p, b, s, t)
  \/ \E fp \in ArtifactPaths : UnlinkDone(fp)
  \/ \E fp \in ArtifactPaths : UnlinkFail(fp)
  \/ \E p \in Paths, c \in Contents : SourceWrite(p, c)
  \/ \E p \in Paths : SourceDelete(p)
  \/ \E fp \in ArtifactPaths : ArtifactDelete(fp)
  \/ \E content \in {NoFile, Garbage} : ManifestFileSet(content)

Spec == Init /\ [][Next]_vars

(***************************************************************************)
(* Two sources with the same extension, cached by one manager.  The files  *)
(* change through the manager and its unlinks alone, and the clock stands  *)
(* still.                                                                  *)
(***************************************************************************)
InitTwoPaths ==
  /\ src \in [TwoPaths -> Contents]
  /\ Started

NextTwoPaths ==
  \/ Initialize
  \/ \E p \in TwoPaths : InvalidateCache(p)
  \/ \E p \in TwoPaths, s \in SettingsSet : GetCachedFileStart(p, s)
  \/ GetCachedFileStat
  \/ \E p \in TwoPaths, b \in Compressed, s \in SettingsSet :
        SaveToCache(p, b, s, now)
  \/ \E fp \in ArtifactPaths : UnlinkDone(fp)
  \/ \E fp \in ArtifactPaths : UnlinkFail(fp)

SpecTwoPaths == InitTwoPaths /\ [][NextTwoPaths]_vars

(***************************************************************************)
(* One source, and a manifest.json that holds anything before the manager  *)
(* initializes: nothing, text that is no JSON, or the JSON text {}.        *)
(***************************************************************************)
ManifestTexts == {NoFile, Garbage, EmptyObjectText}

NextAnyManifest ==
  \/ Initialize
  \/ \E p \in Paths : InvalidateCache(p)
  \/ \E p \in Paths, s \in SettingsSet : GetCachedFileStart(p, s)
  \/ GetCachedFileStat
  \/ \E p \in Paths, b \in Compressed, s \in SettingsSet :
        SaveToCache(p, b, s, now)
  \/ \E fp \in ArtifactPaths : UnlinkDone(fp)
  \/ \E fp \in ArtifactPaths : UnlinkFail(fp)
  \/ \E p \in Paths, c \in Contents : SourceWrite(p, c)
  \/ \E content \in ManifestTexts : ManifestFileSet(content)

SpecAnyManifest == Init /\ [][NextAnyManifest]_vars

(***************************************************************************)
(* One source, looked up and saved with settings objects whose keys were   *)
(* inserted in either order.                                               *)
(***************************************************************************)
NextAnyOrder ==
  \/ Initialize
  \/ \E p \in Paths, s \in SettingsAnyOrder : GetCachedFileStart(p, s)
  \/ GetCachedFileStat
  \/ \E p \in Paths, b \in Compressed, s \in SettingsAnyOrder :
        SaveToCache(p, b, s, now)
  \/ \E fp \in ArtifactPaths : UnlinkDone(fp)
  \/ \E fp \in ArtifactPaths : UnlinkFail(fp)

SpecAnyOrder == Init /\ [][NextAnyOrder]_vars

(***************************************************************************)
(* Two sources, one of them a path whose last component holds no '.'.      *)
(***************************************************************************)
InitNoDot ==
  /\ src \in [DotAndNoDot -> Contents]
  /\ Started

NextNoDot ==
  \/ Initialize
  \/ \E p \in DotAndNoDot : InvalidateCache(p)
  \/ \E p \in DotAndNoDot, s \in SettingsSet : GetCachedFileStart(p, s)
  \/ GetCachedFileStat
  \/ \E p \in DotAndNoDot, b \in Compressed, s \in SettingsSet :
        SaveToCache(p, b, s, now)
  \/ \E fp \in ArtifactPaths : UnlinkDone(fp)
  \/ \E fp \in ArtifactPaths : UnlinkFail(fp)

SpecNoDot == InitNoDot /\ [][NextNoDot]_vars

(***************************************************************************)
(* One source, saveToCache taken statement by statement: the thread pool   *)
(* may carry out a pending unlink between its two writes.                  *)
(***************************************************************************)
NextSteps ==
  \/ Initialize
  \/ \E p \in Paths : InvalidateCache(p)
  \/ \E p \in Paths, s \in SettingsSet : GetCachedFileStart(p, s)
  \/ GetCachedFileStat
  \/ \E p \in Paths, b \in Compressed, s \in SettingsSet :
        SaveToCacheWrite(p, b, s)
  \/ SaveToCachePersist(now)
  \/ \E fp \in ArtifactPaths : UnlinkDone(fp)
  \/ \E fp \in ArtifactPaths : UnlinkFail(fp)

SpecSteps == Init /\ [][NextSteps]_vars

(***************************************************************************)
(* Two manager instances on one cache directory, called in turn, over two  *)
(* sources of different content compressed under one settings object, the  *)
(* second source always to the same bytes.                                 *)
(***************************************************************************)
InitTwoInstances ==
  /\ src = [p \in TwoPaths |-> IF p = PathCss THEN SrcB1 ELSE SrcB2]
  /\ Started

NextTwoInstances ==
  \/ Initialize
  \/ SwitchInstance
  \/ \E p \in TwoPaths : InvalidateCache(p)
  \/ \E p \in TwoPaths : GetCachedFileStart(p, SettingsCss1)
  \/ GetCachedFileStat
  \/ \E b \in Compressed : SaveToCache(PathCss, b, SettingsCss1, now)
  \/ SaveToCache(PathCss2, ZipA, SettingsCss1, now)
  \/ \E fp \in ArtifactPaths : UnlinkDone(fp)
  \/ \E fp \in ArtifactPaths : UnlinkFail(fp)

SpecTwoInstances == InitTwoInstances /\ [][NextTwoInstances]_vars

(***************************************************************************)
(* One manager whose caller starts getCachedFile and saveToCache for two   *)
(* sources of different content without awaiting one another: up to two    *)
(* calls, of different paths, are in flight.                               *)
(***************************************************************************)
NextInterleaved ==
  \/ Initialize
  \/ Yield
  \/ \E p \in TwoPaths, s \in SettingsSet : GetCachedFileBeside(p, s)
  \/ GetCachedFileStat
  \/ \E p \in TwoPaths, b \in Compressed, s \in SettingsSet :
        SaveToCacheBeside(p, b, s, now)
  \/ \E fp \in ArtifactPaths : UnlinkDone(fp)
  \/ \E fp \in ArtifactPaths : UnlinkFail(fp)

SpecInterleaved == InitTwoInstances /\ [][NextInterleaved]_vars

(***************************************************************************)
(* Vocabulary of the properties.                                           *)
(***************************************************************************)
\* This step settles the promise of a call of op.
Returns(op) == ret'.seq # ret.seq /\ ret'.op = op

\* The call completed last, with no file changed out of band since it was
\* made, was a call of op.
Prev(op) == ret.op = op /\ ret.clean

\* This step is a call that settles without reaching an await.
ReturnsAtOnce(op) == Returns(op) /\ call.op = "idle"

\* This step is a call of getCachedFile that reaches its await.
Awaits == call.op = "idle" /\ call'.op = "getCachedFile"

\* Structural equality of two settings objects: the same keys mapped to
\* the same values, whatever the order of insertion.
StructEq(s1, s2) ==
  {s1[i] : i \in DOMAIN s1} = {s2[i] : i \in DOMAIN s2}

\* The manifest holds an entry for p.
HasEntry(m, p) == m.shape = "manifest" /\ p \in DOMAIN m.entries

(***************************************************************************)
(* C1.  getCachedFile(p, s) returns an entry e only if e.sourceHash is the *)
(* hash of the bytes of p the call read, e.settings equals s and the file  *)
(* at e.compressedPath exists when stat looks; when an entry for p is      *)
(* present and one of the three fails, the call returns not-found and the  *)
(* manifest has no entry for p any more.                                   *)
(***************************************************************************)
C1_OnlyValidEntries ==
  [][ /\ Awaits =>
           /\ call'.path \in DOMAIN src
           /\ HasEntry(manifest, call'.path)
           /\ call'.entry = manifest.entries[call'.path]
           /\ call'.entry.sourceHash = sha256(src[call'.path])
           /\ StructEq(call'.entry.settings, call'.settings)
      /\ (Returns("getCachedFile") /\ ret'.value # <<>>) =>
           /\ call.op = "getCachedFile"
           /\ ret'.path = call.path /\ ret'.settings = call.settings
           /\ ret'.value = <<call.entry>>
           /\ call.entry.compressedPath \in DOMAIN files
      /\ (/\ ReturnsAtOnce("getCachedFile")
          /\ ret'.path \in DOMAIN src
          /\ HasEntry(manifest, ret'.path)
          /\ \/ manifest.entries[ret'.path].sourceHash # sha256(src[ret'.path])
             \/ ~StructEq(manifest.entries[ret'.path].settings, ret'.settings)) =>
           /\ ret'.value = <<>> /\ ~Rejected(ret')
           /\ ~HasEntry(manifest', ret'.path)
      /\ (/\ Returns("getCachedFile")
          /\ call.op = "getCachedFile"
          /\ call.entry.compressedPath \notin DOMAIN files) =>
           /\ ret'.value = <<>> /\ ~Rejected(ret')
           /\ ~HasEntry(manifest', call.path)
    ]_vars

\* A lookup has returned the entry a save stored.
C1_Witness ==
  /\ ret.op = "getCachedFile" /\ ret.why = "hit" /\ ret.value # <<>>
  /\ hist.op = "saveToCache" /\ hist.why = "ok"

(***************************************************************************)
(* C2.  Round trip: saveToCache(p, b, s) immediately followed by           *)
(* getCachedFile(p, s), the source unchanged, returns an entry whose       *)
(* artifact file holds exactly b.                                          *)
(***************************************************************************)
C2_RoundTrip ==
  [][ (/\ Returns("getCachedFile")
       /\ Prev("saveToCache") /\ ret.why = "ok"
       /\ ret'.path = ret.path /\ ret'.settings = ret.settings) =>
        /\ ret'.value # <<>>
        /\ ret'.bytes = ret.bytes
    ]_vars

(***************************************************************************)
(* C3.  A cache hit is read-only: a getCachedFile that returns an entry    *)
(* changes neither the in-memory manifest, nor the manifest file, nor an   *)
(* artifact file; two consecutive hits for the same path and settings      *)
(* return the same entry (timestamp, sourceHash, compressedPath) and find  *)
(* the same artifact bytes.                                                *)
(***************************************************************************)
C3_HitReadOnly ==
  [][ /\ (Awaits \/ (Returns("getCachedFile") /\ ret'.value # <<>>)) =>
           /\ manifest' = manifest
           /\ manifestFile' = manifestFile
           /\ files' = files
           /\ pendingUnlink' = pendingUnlink
      /\ (/\ Returns("getCachedFile") /\ ret'.value # <<>>
          /\ Prev("getCachedFile") /\ ret.value # <<>>
          /\ ret'.path = ret.path /\ ret'.settings = ret.settings) =>
           /\ ret'.value = ret.value
           /\ ret'.bytes = ret.bytes
    ]_vars

\* Two consecutive hits for the same path and settings.
C3_Witness ==
  /\ Prev("getCachedFile") /\ ret.why = "hit"
  /\ hist.op = "getCachedFile" /\ hist.why = "hit"
  /\ hist.path = ret.path /\ hist.settings = ret.settings

(***************************************************************************)
(* C4.  Content-change invalidation: when the bytes of source p differ     *)
(* from those the entry of p was saved for, getCachedFile(p, s) returns    *)
(* not-found and removes the entry; once the caller's following            *)
(* saveToCache(p, b', s) has returned, the artifact file of the previous   *)
(* entry exists no more and the artifact of the new entry exists.          *)
(***************************************************************************)
C4_ContentChange ==
  [][ /\ (/\ ReturnsAtOnce("getCachedFile")
          /\ ret'.path \in DOMAIN src
          /\ HasEntry(manifest, ret'.path)
          /\ manifest.entries[ret'.path].sourceHash # sha256(src[ret'.path])) =>
           /\ ret'.value = <<>> /\ ~Rejected(ret')
           /\ ~HasEntry(manifest', ret'.path)
      /\ (/\ Returns("saveToCache") /\ ret'.why = "ok"
          /\ Prev("getCachedFile") /\ ret.why = "hash"
          /\ ret'.path = ret.path /\ ret'.settings = ret.settings) =>
           /\ ret.stale[1] \notin DOMAIN files'
           /\ ret'.value[1].compressedPath \in DOMAIN files'
    ]_vars

(***************************************************************************)
(* C5.  Settings-change invalidation: the source unchanged and an entry    *)
(* for p stored under s1, getCachedFile(p, s2) with s2 different from s1   *)
(* returns not-found and removes the entry; after the caller's             *)
(* saveToCache(p, b, s2), getCachedFile(p, s2) returns an entry stored     *)
(* under s2, and a getCachedFile(p, s1) after it returns not-found.        *)
(***************************************************************************)
C5_SettingsChange ==
  [][ /\ (/\ ReturnsAtOnce("getCachedFile")
          /\ ret'.path \in DOMAIN src
          /\ HasEntry(manifest, ret'.path)
          /\ manifest.entries[ret'.path].sourceHash = sha256(src[ret'.path])
          /\ ~StructEq(manifest.entries[ret'.path].settings, ret'.settings)) =>
           /\ ret'.value = <<>> /\ ~Rejected(ret')
           /\ ~HasEntry(manifest', ret'.path)
      /\ (/\ Returns("getCachedFile")
          /\ Prev("saveToCache") /\ ret.why = "ok"
          /\ hist.op = "getCachedFile" /\ hist.why = "settings"
          /\ hist.path = ret.path /\ hist.settings = ret.settings
          /\ ret'.path = ret.path /\ ret'.settings = ret.settings) =>
           /\ ret'.value # <<>>
           /\ ret'.value[1].settings = ret'.settings
      /\ (/\ Returns("getCachedFile")
          /\ Prev("getCachedFile") /\ ret.value # <<>>
          /\ ret'.path = ret.path
          /\ ~StructEq(ret'.settings, ret.settings)) =>
           /\ ret'.value = <<>> /\ ~Rejected(ret')
    ]_vars

(***************************************************************************)
(* C6.  Manifest durability: saveToCache(p, b, s), once returned, has      *)
(* written its entry to the manifest file; a fresh manager instance on the *)
(* same cache directory that calls initialize() and then                   *)
(* getCachedFile(p, s), the source and the artifact being as they were,    *)
(* returns the entry the file holds: the saved one, field by field.        *)
(***************************************************************************)
C6_ManifestDurability ==
  [][ /\ (Returns("saveToCache") /\ ret'.why = "ok") =>
           /\ Parsable(manifestFile')
           /\ HasEntry(ParseManifest(manifestFile'), ret'.path)
           /\ ParseManifest(manifestFile').entries[ret'.path] = ret'.value[1]
      /\ (/\ Returns("getCachedFile")
          /\ Prev("initialize") /\ ret.why = "loaded"
          /\ hist.op = "constructor"
          /\ Parsable(manifestFile)
          /\ HasEntry(ParseManifest(manifestFile), ret'.path)
          /\ ParseManifest(manifestFile).entries[ret'.path].settings = ret'.settings
          /\ ret'.path \in DOMAIN src
          /\ ParseManifest(manifestFile).entries[ret'.path].sourceHash
               = sha256(src[ret'.path])
          /\ ParseManifest(manifestFile).entries[ret'.path].compressedPath
               \in DOMAIN files) =>
           ret'.value = <<ParseManifest(manifestFile).entries[ret'.path]>>
    ]_vars

\* A fresh instance has initialized from the file and its lookup has hit.
C6_Witness ==
  /\ ret.op = "getCachedFile" /\ ret.why = "hit"
  /\ hist.op = "initialize" /\ hist.why = "loaded"
  /\ hist.fresh

(***************************************************************************)
(* C7.  Missing-artifact self-heal: the manifest holding an entry for p    *)
(* whose sourceHash and settings match the call while its artifact file    *)
(* is missing, getCachedFile(p, s) returns not-found without an error,     *)
(* removes the entry from the in-memory manifest, writes the manifest      *)
(* without it, and starts no deletion of the artifact file.                *)
(***************************************************************************)
C7_MissingArtifact ==
  [][ (/\ Returns("getCachedFile")
       /\ call.op = "getCachedFile"
       /\ call.entry.compressedPath \notin DOMAIN files) =>
        /\ ret'.value = <<>> /\ ~Rejected(ret')
        /\ ~HasEntry(manifest', call.path)
        /\ Parsable(manifestFile')
        /\ ParseManifest(manifestFile') = manifest'
        /\ pendingUnlink' = pendingUnlink
        /\ files' = files
    ]_vars

\* A lookup found the artifact of a matching entry missing.
C7_Witness ==
  /\ ret.op = "getCachedFile" /\ ret.why = "missing"
  /\ ~HasEntry(manifest, ret.path)

(***************************************************************************)
(* C8.  initialize(), whatever the in-memory manifest before the call:     *)
(* the manifest file missing or malformed, the manager's manifest is the   *)
(* empty manifest after the call, manifest.json holds that empty manifest, *)
(* and no error reaches the caller.                                        *)
(***************************************************************************)
C8_InitializeFallsBackToEmpty ==
  [][ (Returns("initialize") /\ ~Parsable(manifestFile)) =>
        /\ ~Rejected(ret')
        /\ manifest' = EmptyManifest
        /\ manifestFile' = StringifyManifest(EmptyManifest)
    ]_vars

(***************************************************************************)
(* C9.  initialize() over a valid manifest file leaves the file's content  *)
(* unchanged, deletes no artifact file and leaves the in-memory manifest   *)
(* equal to the file's content; a further initialize() changes nothing.    *)
(***************************************************************************)
C9_InitializeIdempotent ==
  [][ (/\ Returns("initialize")
       /\ Parsable(manifestFile) /\ manifestFile.text = "manifest") =>
        /\ ~Rejected(ret')
        /\ manifestFile' = manifestFile
        /\ files' = files
        /\ pendingUnlink' = pendingUnlink
        /\ manifest' = ParseManifest(manifestFile')
        /\ (Prev("initialize") /\ ret.why = "loaded") => manifest' = manifest
    ]_vars

\* initialize() has run twice in a row over a manifest file with an entry.
C9_Witness ==
  /\ ret.op = "initialize" /\ ret.why = "loaded"
  /\ hist.op = "initialize" /\ hist.why = "loaded"
  /\ manifest.shape = "manifest" /\ DOMAIN manifest.entries # {}
  /\ ParseManifest(manifestFile) = manifest

(***************************************************************************)
(* C10.  An unreadable source is a hard error without a change of state:   *)
(* getCachedFile and saveToCache on a path that cannot be read raise an    *)
(* error, whether or not the manifest has an entry for the path, and leave *)
(* the in-memory manifest, the manifest file and the artifact files as     *)
(* they were.                                                              *)
(***************************************************************************)
C10_UnreadableSource ==
  [][ /\ (/\ ReturnsAtOnce("getCachedFile") \/ ReturnsAtOnce("saveToCache")
          /\ ret'.path \notin DOMAIN src) =>
           /\ Rejected(ret') /\ ret'.value = <<>>
           /\ manifest' = manifest
           /\ manifestFile' = manifestFile
           /\ files' = files
           /\ pendingUnlink' = pendingUnlink
      /\ Awaits => call'.path \in DOMAIN src
    ]_vars

\* Both operations have failed on an unreadable source that has an entry.
C10_Witness ==
  /\ ret.op = "getCachedFile" /\ ret.why = "unreadable"
  /\ hist.op = "saveToCache" /\ hist.why = "unreadable"
  /\ ret.path \notin DOMAIN src
  /\ HasEntry(manifest, ret.path)

(***************************************************************************)
(* C11.  invalidateCache(p) on a path that has an entry raises no error;   *)
(* when it returns, neither the in-memory manifest nor the manifest file   *)
(* has an entry for p and the entries of the other paths are as before, in *)
(* both.  The deletion of the artifact is still to come: when it is        *)
(* carried out or fails, the manifest, the manifest file and what the      *)
(* caller was given stay as they are.                                      *)
(***************************************************************************)
C11_InvalidateCache ==
  [][ /\ (Returns("invalidateCache") /\ HasEntry(manifest, ret'.path)) =>
           /\ ~Rejected(ret')
           /\ ~HasEntry(manifest', ret'.path)
           /\ Parsable(manifestFile')
           /\ ~HasEntry(ParseManifest(manifestFile'), ret'.path)
           /\ DOMAIN manifest'.entries = DOMAIN manifest.entries \ {ret'.path}
           /\ \A q \in DOMAIN manifest'.entries :
                 manifest'.entries[q] = manifest.entries[q]
           /\ ParseManifest(manifestFile').entries = manifest'.entries
           /\ pendingUnlink'[ret'.stale[1]] = pendingUnlink[ret'.stale[1]] + 1
           /\ files' = files
      /\ (\E fp \in ArtifactPaths : pendingUnlink'[fp] < pendingUnlink[fp]) =>
           /\ manifest' = manifest
           /\ manifestFile' = manifestFile
           /\ ret' = ret /\ call' = call
    ]_vars

\* invalidateCache(p) has returned, the deletion it started has failed (the
\* artifact is still there) and the entry of the other path is in place.
C11_Witness ==
  /\ ret.op = "invalidateCache" /\ ret.why = "ok"
  /\ pendingUnlink[ret.stale[1]] = 0
  /\ ret.stale[1] \in DOMAIN files
  /\ ~HasEntry(manifest, ret.path)
  /\ DOMAIN manifest.entries # {}

(***************************************************************************)
(* C12.  A miss is never a failure: once the manager has completed         *)
(* initialize(), whatever manifest.json held before, getCachedFile(p, s)   *)
(* on a readable source returns an entry or not-found and raises no error. *)
(***************************************************************************)
C12_MissNeverFails ==
  [][ (Returns("getCachedFile") /\ ret'.path \in DOMAIN src) =>
        ~Rejected(ret')
    ]_vars

(***************************************************************************)
(* C13.  Settings are compared structurally: the source unchanged since    *)
(* the save, getCachedFile(p, s) goes on to look for the artifact, and     *)
(* returns the stored entry when it is there, if and only if s has the     *)
(* keys and values of the stored settings, in whatever order the keys of   *)
(* s were inserted.                                                        *)
(***************************************************************************)
C13_StructuralSettings ==
  [][ /\ Awaits => StructEq(call'.entry.settings, call'.settings)
      /\ (/\ ReturnsAtOnce("getCachedFile")
          /\ ret'.path \in DOMAIN src
          /\ HasEntry(manifest, ret'.path)
          /\ manifest.entries[ret'.path].sourceHash = sha256(src[ret'.path])) =>
           ~StructEq(manifest.entries[ret'.path].settings, ret'.settings)
      /\ (/\ Returns("getCachedFile")
          /\ call.op = "getCachedFile"
          /\ call.entry.compressedPath \in DOMAIN files) =>
           ret'.value = <<call.entry>>
    ]_vars

(***************************************************************************)
(* C14.  Postcondition of saveToCache(p, b, s) on a readable source with   *)
(* bytes B, whether or not the last component of p holds a '.': the call   *)
(* raises no error; the manifest has an entry for p with sourceHash =      *)
(* H(B), settings = s, size.original = |B| and size.compressed = |b|; its  *)
(* compressedPath is a file directly inside the cache directory, named     *)
(* H(B) and the extension of p, and that file holds exactly b.             *)
(***************************************************************************)
C14_SaveToCachePostcondition ==
  [][ (Returns("saveToCache") /\ ret'.path \in DOMAIN src) =>
        /\ ~Rejected(ret')
        /\ HasEntry(manifest', ret'.path)
        /\ LET e == manifest'.entries[ret'.path]
               B == src[ret'.path]
           IN /\ e.sourceHash = sha256(B)
              /\ e.settings = ret'.settings
              /\ e.size.original = Len(B)
              /\ e.size.compressed = Len(ret'.bytes[1])
              /\ e.compressedPath.dir = "cacheDir"
              /\ e.compressedPath.file.stem = sha256(B)
              /\ LastDot(ret'.path, Len(ret'.path)) > 0 =>
                    e.compressedPath.file.ext = Ext(ret'.path)
              /\ InCacheDir(e.compressedPath)
              /\ e.compressedPath \in DOMAIN files'
              /\ files'[e.compressedPath] = ret'.bytes[1]
              /\ Parsable(manifestFile')
              /\ ParseManifest(manifestFile').entries = manifest'.entries
    ]_vars

(***************************************************************************)
(* C15.  Write ordering of saveToCache(p, b, s): when the manifest file is *)
(* rewritten with the new entry, the artifact file the entry names exists  *)
(* with contents b; and whenever, the call having returned and no other   *)
(* call begun, the manifest file holds the entry the call created, that    *)
(* artifact exists with contents b.                                        *)
(***************************************************************************)
C15_ArtifactBeforeManifest ==
  [][ /\ (Returns("saveToCache") /\ ret'.why = "ok") =>
           /\ BytesAt(ret'.value[1].compressedPath) = ret'.bytes
           /\ files' = files
      /\ (/\ ret'.op = "saveToCache" /\ ret'.why = "ok" /\ call' = Idle
          /\ Parsable(manifestFile')
          /\ HasEntry(ParseManifest(manifestFile'), ret'.path)
          /\ ParseManifest(manifestFile').entries[ret'.path] = ret'.value[1]) =>
           /\ ret'.value[1].compressedPath \in DOMAIN files'
           /\ files'[ret'.value[1].compressedPath] = ret'.bytes[1]
    ]_vars

(***************************************************************************)
(* C16.  Persist after every mutation: initialize() leaves the manifest    *)
(* file equal to the in-memory manifest, and with nobody else writing      *)
(* manifest.json it stays equal wherever control can pass to another       *)
(* operation: at the await of getCachedFile and at every return of         *)
(* getCachedFile, saveToCache and invalidateCache, also a rejected one.    *)
(***************************************************************************)
C16_PersistAfterMutation ==
  [][ /\ Returns("initialize") =>
           /\ Parsable(manifestFile')
           /\ ParseManifest(manifestFile') = manifest'
      /\ (/\ ready
          /\ Parsable(manifestFile) /\ ParseManifest(manifestFile) = manifest
          /\ \/ Awaits
             \/ Returns("getCachedFile")
             \/ Returns("saveToCache")
             \/ Returns("invalidateCache")) =>
           /\ Parsable(manifestFile')
           /\ ParseManifest(manifestFile') = manifest'
    ]_vars

\* A lookup has found the settings changed and dropped the entry a save had
\* stored: the manifest file holds what the manager holds.
C16_Witness ==
  /\ ret.op = "getCachedFile" /\ ret.why = "settings"
  /\ hist.op = "saveToCache" /\ hist.why = "ok"
  /\ ready
  /\ ParseManifest(manifestFile) = manifest
  /\ ~HasEntry(manifest, ret.path)

(***************************************************************************)
(* C17.  Two instances A and B on one cache directory.  B is the instance  *)
(* about to be called, A the other one; A has just saved p and B's         *)
(* manifest is the one A started from: equal to A's but for the entry of   *)
(* p.                                                                      *)
(***************************************************************************)
AfterSaveByOther(p) ==
  /\ Prev("switch")
  /\ hist.op = "saveToCache" /\ hist.why = "ok" /\ hist.path = p
  /\ ready /\ parked.ready
  /\ manifest.shape = "manifest"
  /\ HasEntry(parked.manifest, p)
  /\ Parsable(manifestFile) /\ ParseManifest(manifestFile) = parked.manifest
  /\ DeleteKey(parked.manifest.entries, p) = DeleteKey(manifest.entries, p)

\* B persists before it reloads, by a save of another path or by an
\* invalidation: the manifest file then equals B's manifest, and what it
\* holds for p is what B held, not what A saved.
LastWriterWins ==
  (/\ (Returns("saveToCache") \/ Returns("invalidateCache"))
   /\ ret'.why = "ok"
   /\ \E p \in TwoPaths :
         AfterSaveByOther(p) /\ (ret'.op = "saveToCache" => ret'.path # p)) =>
    /\ ParseManifest(manifestFile') = manifest'
    /\ \A p \in TwoPaths :
          (AfterSaveByOther(p) /\ HasEntry(ParseManifest(manifestFile'), p)) =>
            /\ HasEntry(manifest, p)
            /\ ParseManifest(manifestFile').entries[p] = manifest.entries[p]

SavedBytes(e) == {b \in Compressed : Len(b) = e.size.compressed}

C18_HitServesSavedBytes ==
  [][ (Returns("getCachedFile") /\ ret'.value # <<>>) =>
        /\ ret'.value[1].settings = ret'.settings
        /\ ret'.bytes # <<>>
        /\ ret'.bytes[1] \in SavedBytes(ret'.value[1])
    ]_vars

(***************************************************************************)
(* C19.  The deletion that invalidateCache starts and does not await       *)
(* removes no artifact written by a later saveToCache: once                *)
(* saveToCache(p, b, s) has returned, and until the next call, the file at *)
(* the new entry's compressedPath exists with contents b, whenever the     *)
(* pending deletion is carried out.                                        *)
(***************************************************************************)
C19_UnlinkSparesLaterSave ==
  (ret.op = "saveToCache" /\ ret.why = "ok") =>
    /\ ret.value[1].compressedPath \in DOMAIN files
    /\ files[ret.value[1].compressedPath] = ret.bytes[1]

(***************************************************************************)
(* C20.  Calls of getCachedFile and saveToCache for different paths,       *)
(* started without awaiting one another, lose no update.  Every save puts  *)
(* its entry into the manifest and the manifest file and leaves the        *)
(* entries of the other paths as they are, in both; a lookup, also one     *)
(* that was suspended while other calls ran, changes no entry but that of  *)
(* its own path and leaves the file equal to the manifest; and when all    *)
(* calls have completed, the entry of a save that ran before the last call *)
(* to complete, for another path, is in the manifest and in the file.      *)
(***************************************************************************)
C20_NoLostUpdate ==
  [][ /\ (Returns("saveToCache") /\ ret'.why = "ok") =>
           /\ HasEntry(manifest', ret'.path)
           /\ manifest'.entries[ret'.path] = ret'.value[1]
           /\ DOMAIN manifest'.entries = DOMAIN manifest.entries \cup {ret'.path}
           /\ \A q \in DOMAIN manifest.entries \ {ret'.path} :
                 manifest'.entries[q] = manifest.entries[q]
           /\ ParseManifest(manifestFile') = manifest'
      /\ Returns("getCachedFile") =>
           /\ \A q \in DOMAIN manifest.entries \ {ret'.path} :
                 /\ HasEntry(manifest', q)
                 /\ manifest'.entries[q] = manifest.entries[q]
           /\ DOMAIN manifest'.entries \subseteq DOMAIN manifest.entries
           /\ ParseManifest(manifestFile') = manifest'
      /\ (/\ Returns("getCachedFile") \/ Returns("saveToCache")
          /\ call' = Idle /\ parked'.call = Idle
          /\ Prev("saveToCache") /\ ret.why = "ok"
          /\ ret.path # ret'.path) =>
           /\ HasEntry(manifest', ret.path)
           /\ manifest'.entries[ret.path] = ret.value[1]
           /\ HasEntry(ParseManifest(manifestFile'), ret.path)
           /\ ParseManifest(manifestFile').entries[ret.path] = ret.value[1]
    ]_vars

\* Two lookups, of different paths, are suspended at once, the artifact of
\* one of them is gone, so that its continuation will rewrite the manifest,
\* and the manifest holds the entries of both paths.
C20_Witness ==
  /\ call.op = "getCachedFile" /\ parked.call.op = "getCachedFile"
  /\ call.path # parked.call.path
  /\ call.entry.compressedPath \notin DOMAIN files
  /\ parked.call.entry.compressedPath \in DOMAIN files
  /\ HasEntry(manifest, call.path) /\ HasEntry(manifest, parked.call.path)

(***************************************************************************)
(* C21.  Invalidation is confined to its own path.  Invalidating the entry *)
(* of p, by invalidateCache(p) or by a getCachedFile(p, s) that finds the  *)
(* entry stale, leaves the manifest entry of every other path q as it is;  *)
(* the deletion it started leaves the artifact file of q's entry as it is; *)
(* and a getCachedFile(q, s) that returned q's entry before the            *)
(* invalidation returns it again after it, also when p and q have sources  *)
(* of the same content and extension.                                      *)
(***************************************************************************)
\* The completed call r invalidated the entry of its path.
Invalidation(r) ==
  \/ r.op = "invalidateCache" /\ r.why = "ok"
  \/ r.op = "getCachedFile" /\ r.why \in {"hash", "settings"}

C21_InvalidationConfined ==
  [][ /\ ((Returns("invalidateCache") \/ ReturnsAtOnce("getCachedFile"))
            /\ Invalidation(ret')) =>
           \A q \in DOMAIN manifest.entries \ {ret'.path} :
             /\ HasEntry(manifest', q)
             /\ manifest'.entries[q] = manifest.entries[q]
             /\ BytesAt(manifest.entries[q].compressedPath)' =
                  BytesAt(manifest.entries[q].compressedPath)
      /\ (/\ Invalidation(ret) /\ ret.clean /\ ret' = ret
          /\ manifest.shape = "manifest"
          /\ pendingUnlink'[ret.stale[1]] < pendingUnlink[ret.stale[1]]) =>
           \A q \in DOMAIN manifest.entries \ {ret.path} :
             BytesAt(manifest.entries[q].compressedPath)' =
               BytesAt(manifest.entries[q].compressedPath)
      /\ (/\ Returns("getCachedFile")
          /\ Invalidation(ret) /\ ret.clean
          /\ hist.op = "getCachedFile" /\ hist.why = "hit"
          /\ hist.path # ret.path
          /\ ret'.path = hist.path /\ ret'.settings = hist.settings) =>
           ret'.value # <<>>
    ]_vars

====
